---- MODULE Spec2Model ----
(***************************************************************************)
(* The core table helpers of cor_funcoes.py: filter_columns_multiple,      *)
(* filter_columns, cleaning_dataset, calcular_desistentes and              *)
(* converter_e_arredondar.                                                  *)
(*                                                                         *)
(* A string is a sequence of one-character strings, so that Python's       *)
(* substring test `a in b` is computed.  A table is a record               *)
(*   [columns |-> sequence of names, index |-> sequence of row labels,     *)
(*    rows |-> sequence of rows, each a sequence of cells]                 *)
(* and a cell is NaN, a string or a number (fixed point, three decimals).  *)
(***************************************************************************)
EXTENDS Integers, Sequences, FiniteSets, TLC

VARIABLES
    df,      \* the caller's table object (converter_e_arredondar mutates it)
    pre,     \* the value of df when the last call was entered
    fn,      \* the function called last, "none" before the first call
    args,    \* the other arguments of the last call
    ret,     \* what the last call returned (NoValue when it raised)
    raised,  \* the exception that reached the caller, "none" otherwise
    log,     \* what the last call printed
    chain    \* cleaning_dataset nested: <<T, c(T), c(c(T)), ...>>

vars == <<df, pre, fn, args, ret, raised, log, chain>>

----------------------------------------------------------------------------
(* Bounds of the model *)

MaxCols == 3
MaxRows == 2
MaxIdRows == 3
MaxFilters == 2
MaxColunas == 2
MaxApply == 2

Scale == 3

----------------------------------------------------------------------------
(* Values *)

NoValue == [k |-> "none"]
NaN == [k |-> "nan"]
Str(s) == [k |-> "str", s |-> s]
Num(v) == [k |-> "num", v |-> v]

Range(s) == {s[i] : i \in 1..Len(s)}

SeqsUpTo(S, n) == UNION {[1..m -> S] : m \in 0..n}

IsInjective(s) == \A i, j \in 1..Len(s) : s[i] = s[j] => i = j

\* Python's `sub in s` on strings
Contains(sub, s) ==
    \E i \in 0..(Len(s) - Len(sub)) : SubSeq(s, i + 1, i + Len(sub)) = sub

NOME == <<"N", "O", "M", "E">>
M20 == <<"M", "2", "0">>
M21 == <<"M", "2", "1">>
I20 == <<"I", "2", "0">>
ZZ == <<"Z">>

ColNames == {NOME, M20, M21, I20}

FilterStrings == {<<"2", "0">>, <<"2", "1">>, <<"M">>, <<"2">>, <<>>, ZZ}

Table(cols, idx, rows) == [columns |-> cols, index |-> idx, rows |-> rows]

TablesOver(colLists, cells, rowCounts) ==
    UNION {UNION {{Table(cols, [i \in 1..n |-> i], rows) :
                      rows \in [1..n -> [1..Len(cols) -> cells]]}
                  : n \in rowCounts}
           : cols \in colLists}

\* position of a column label in df.columns (labels are unique)
Pos(cols, name) == CHOOSE j \in 1..Len(cols) : cols[j] = name

\* df[columns] with a list of labels
SelectColumns(t, names) ==
    Table(names, t.index,
          [i \in 1..Len(t.rows) |->
              [j \in 1..Len(names) |-> t.rows[i][Pos(t.columns, names[j])]]])

\* df[mask] with a boolean row mask: the rows kept, labels and order as in df
RECURSIVE KeptPositions(_, _)
KeptPositions(mask, i) ==
    IF i > Len(mask) THEN <<>>
    ELSE IF mask[i] THEN <<i>> \o KeptPositions(mask, i + 1)
    ELSE KeptPositions(mask, i + 1)

SelectRows(t, mask) ==
    LET kept == KeptPositions(mask, 1)
    IN  Table(t.columns,
              [i \in 1..Len(kept) |-> t.index[kept[i]]],
              [i \in 1..Len(kept) |-> t.rows[kept[i]]])

----------------------------------------------------------------------------
(* filter_columns_multiple *)

\* mutant: the last filter that the name contains
RECURSIVE LastMatch(_, _, _)
LastMatch(filters, column, i) ==
    IF i > Len(filters) THEN 0
    ELSE LET later == LastMatch(filters, column, i + 1)
         IN  IF later # 0 THEN later
             ELSE IF Contains(filters[i], column) THEN i ELSE 0

\* the inner loop: the first filter, in list order, that the name contains
RECURSIVE FirstMatch(_, _, _)
FirstMatch(filters, column, i) ==
    IF i > Len(filters) THEN 0
    ELSE IF Contains(filters[i], column) THEN i
    ELSE FirstMatch(filters, column, i + 1)

\* mutant: the loop without its break, appending to every matching filter
RECURSIVE AppendAll(_, _, _, _)
AppendAll(filters, column, filtered_dfs, i) ==
    IF i > Len(filters) THEN filtered_dfs
    ELSE AppendAll(filters, column,
             IF Contains(filters[i], column)
             THEN [filtered_dfs EXCEPT ![filters[i]] = Append(@, column)]
             ELSE filtered_dfs,
             i + 1)

RECURSIVE ColumnLoopNoBreak(_, _, _)
ColumnLoopNoBreak(columns, filters, filtered_dfs) ==
    IF columns = <<>> THEN filtered_dfs
    ELSE ColumnLoopNoBreak(Tail(columns), filters,
             AppendAll(filters, Head(columns), filtered_dfs, 1))

\* the outer loop over df.columns, appending to the first matching filter
RECURSIVE ColumnLoop(_, _, _)
ColumnLoop(columns, filters, filtered_dfs) ==
    IF columns = <<>> THEN filtered_dfs
    ELSE LET m == FirstMatch(filters, Head(columns), 1)
         IN  ColumnLoop(Tail(columns), filters,
                 IF m = 0 THEN filtered_dfs
                 ELSE [filtered_dfs EXCEPT ![filters[m]] = Append(@, Head(columns))])

filter_columns_multiple(t, filters) ==
    LET filtered_dfs == ColumnLoop(t.columns, filters,
                                   [f \in Range(filters) |-> <<>>])
    IN  [f \in DOMAIN filtered_dfs |-> SelectColumns(t, filtered_dfs[f])]

----------------------------------------------------------------------------
(* filter_columns *)

\* mutant: all() in place of any()
selected_columns_all(columns, filters) ==
    [i \in 1..Len(columns) |->
        ~ \A k \in 1..Len(filters) : Contains(filters[k], columns[i])]

\* selected_columns after the loop: False where a filter is in the name
selected_columns(columns, filters) ==
    [i \in 1..Len(columns) |->
        ~ \E k \in 1..Len(filters) : Contains(filters[k], columns[i])]

filter_columns(t, filters) ==
    LET kept == KeptPositions(selected_columns(t.columns, filters), 1)
    IN  SelectColumns(t, [i \in 1..Len(kept) |-> t.columns[kept[i]]])

----------------------------------------------------------------------------
(* cleaning_dataset *)

isna(cell) == cell.k = "nan"

\* mutant: the subset is every column
columns_all(columns, names) == Range(columns)

\* df.columns.difference(['NOME'])
columns_difference(columns, names) == Range(columns) \ names

\* df.dropna(subset=subset, how='all'): a row is kept when one of the subset's
\* columns holds a value; over an empty subset no row is kept
dropna_all(t, subset) ==
    SelectRows(t, [i \in 1..Len(t.rows) |->
        \E j \in 1..Len(t.columns) :
            t.columns[j] \in subset /\ ~isna(t.rows[i][j])])

\* mutant: any(axis=1) in place of all(axis=1)
drop_any_nan_rows(t) ==
    SelectRows(t, [i \in 1..Len(t.rows) |->
        ~ \E j \in 1..Len(t.columns) : isna(t.rows[i][j])])

\* _df[~_df.isna().all(axis=1)]
drop_all_nan_rows(t) ==
    SelectRows(t, [i \in 1..Len(t.rows) |->
        ~ \A j \in 1..Len(t.columns) : isna(t.rows[i][j])])

cleaning_stage1(t) == dropna_all(t, columns_difference(t.columns, {NOME}))

\* mutant: the first remaining row is taken for a header and dropped
cleaning_dataset_header(t) ==
    LET c == drop_all_nan_rows(cleaning_stage1(t))
    IN  SelectRows(c, [i \in 1..Len(c.rows) |-> i > 1])

cleaning_dataset(t) == drop_all_nan_rows(cleaning_stage1(t))

----------------------------------------------------------------------------
(* calcular_desistentes *)

\* set(df[coluna_nome])
column_set(t, coluna_nome) ==
    {t.rows[i][Pos(t.columns, coluna_nome)] : i \in 1..Len(t.rows)}

\* list(s): every element once, in an order the set decides
ListsOf(S) == {l \in [1..Cardinality(S) -> S] : IsInjective(l)}

\* df[coluna_nome] raises KeyError for a label that is no column; df_anterior
\* is read first
desistentes_raises(df_anterior, df_atual, coluna_nome) ==
    \/ coluna_nome \notin Range(df_anterior.columns)
    \/ coluna_nome \notin Range(df_atual.columns)

\* mutant: the difference the other way round
calcular_ingressantes(df_anterior, df_atual, coluna_nome) ==
    ListsOf(column_set(df_atual, coluna_nome)
                \ column_set(df_anterior, coluna_nome))

calcular_desistentes(df_anterior, df_atual, coluna_nome) ==
    ListsOf(column_set(df_anterior, coluna_nome)
                \ column_set(df_atual, coluna_nome))

----------------------------------------------------------------------------
(* converter_e_arredondar *)

Digits == <<"0", "1", "2", "3", "4", "5", "6", "7", "8", "9">>

IsDigit(c) == \E i \in 1..10 : Digits[i] = c

DigitOf(c) == (CHOOSE i \in 1..10 : Digits[i] = c) - 1

RECURSIVE Pow10(_)
Pow10(n) == IF n <= 0 THEN 1 ELSE 10 * Pow10(n - 1)

RECURSIVE DigitsValue(_)
DigitsValue(s) ==
    IF s = <<>> THEN 0
    ELSE 10 * DigitsValue(SubSeq(s, 1, Len(s) - 1)) + DigitOf(s[Len(s)])

\* the number a string spells, in units of 10^-Scale, or NaN: an optional
\* minus sign, digits, at most one point, at least one digit; anything else
\* (letters, the empty string, a lone point) spells no number.  The cells of
\* the model spell at most Scale decimals and use no exponent or blank.
ParseNumber(s) ==
    LET neg  == Len(s) > 0 /\ s[1] = "-"
        body == IF neg THEN Tail(s) ELSE s
        dots == {i \in 1..Len(body) : body[i] = "."}
        ok   == /\ \A i \in 1..Len(body) : IsDigit(body[i]) \/ body[i] = "."
                /\ Cardinality(dots) <= 1
                /\ \E i \in 1..Len(body) : IsDigit(body[i])
        dot  == IF dots = {} THEN Len(body) + 1 ELSE CHOOSE i \in dots : TRUE
        int  == SubSeq(body, 1, dot - 1)
        frac == SubSeq(body, dot + 1, Len(body))
        mag  == DigitsValue(int) * Pow10(Scale)
                    + DigitsValue(frac) * Pow10(Scale - Len(frac))
    IN  IF ok /\ Len(frac) <= Scale
        THEN Num(IF neg THEN 0 - mag ELSE mag)
        ELSE NaN

\* mutant: errors='ignore', what cannot be parsed stays as it is
to_numeric_ignore(cell) ==
    IF cell.k = "str" /\ ParseNumber(cell.s) # NaN THEN ParseNumber(cell.s)
    ELSE cell

\* pd.to_numeric(..., errors='coerce') on one value
to_numeric(cell) ==
    IF cell.k = "str" THEN ParseNumber(cell.s) ELSE cell

\* numpy's round: to `decimals` places, a tie going to the even neighbour
round_value(v, decimals) ==
    IF decimals >= Scale THEN v
    ELSE LET unit == Pow10(Scale - decimals)
             q == v \div unit
             r == v % unit
         IN  IF 2 * r < unit THEN q * unit
             ELSE IF 2 * r > unit THEN (q + 1) * unit
             ELSE IF q % 2 = 0 THEN q * unit
             ELSE (q + 1) * unit

round_cell(cell, decimals) ==
    IF cell.k = "num" THEN Num(round_value(cell.v, decimals)) ELSE cell

\* pd.to_numeric(df[coluna], errors='coerce').round(casas_decimais), one cell
convert_cell(cell, decimals) == round_cell(to_numeric(cell), decimals)

\* df[coluna] = ...: the column replaced in place
assign_column(t, coluna, decimals) ==
    LET j == Pos(t.columns, coluna)
    IN  [t EXCEPT !.rows = [i \in 1..Len(t.rows) |->
            [t.rows[i] EXCEPT ![j] = convert_cell(@, decimals)]]]

\* an element of `colunas` that is no label: a list, which cannot be hashed
Unhashable == <<"[]">>

\* casas_decimais: an integer, or a value round() does not accept
Casas(n) == [int |-> TRUE, v |-> n]
BadCasas == [int |-> FALSE, v |-> 0]

DefaultCasas == 2

\* the loop of the try block, from element i on: the table as the loop
\* leaves it, and whether an exception ended the loop
RECURSIVE coluna_loop(_, _, _, _)
coluna_loop(t, colunas, casas_decimais, i) ==
    IF i > Len(colunas) THEN [df |-> t, failed |-> FALSE]
    ELSE IF colunas[i] = Unhashable
         THEN [df |-> t, failed |-> TRUE]    \* `coluna in df.columns` raises
    ELSE IF colunas[i] \notin Range(t.columns)
         THEN coluna_loop(t, colunas, casas_decimais, i + 1)
    ELSE IF ~casas_decimais.int
         THEN [df |-> t, failed |-> TRUE]    \* .round(...) raises, nothing assigned
    ELSE coluna_loop(assign_column(t, colunas[i], casas_decimais.v),
                     colunas, casas_decimais, i + 1)

\* without the try block the exception reaches the caller
converter_no_except(t, colunas, casas_decimais) ==
    LET r == coluna_loop(t, colunas, casas_decimais, 1)
    IN  [df |-> r.df,
         log |-> IF r.failed THEN <<>> ELSE <<"Colunas foram convertidas">>,
         raised |-> IF r.failed THEN "TypeError" ELSE "none"]

\* try: the loop, then the message; except Exception: the error message;
\* either way df is returned
converter_e_arredondar(t, colunas, casas_decimais) ==
    LET r == coluna_loop(t, colunas, casas_decimais, 1)
    IN  [df |-> r.df,
         log |-> IF r.failed THEN <<"Erro ao converter ou arredondar colunas">>
                 ELSE <<"Colunas foram convertidas">>,
         raised |-> "none"]

----------------------------------------------------------------------------
(* Calls: a caller builds a table and calls one of the functions on it;      *)
(* cleaning_dataset may then be applied again to what it returned.           *)

Fresh == fn = "none"

FilterLists == SeqsUpTo(FilterStrings, MaxFilters)

CallFilterColumnsMultiple ==
    /\ Fresh
    /\ \E filters \in FilterLists :
        /\ fn' = "filter_columns_multiple"
        /\ args' = [filters |-> filters]
        /\ pre' = df
        /\ ret' = filter_columns_multiple(df, filters)
        /\ raised' = "none"
        /\ UNCHANGED <<df, log, chain>>

CallFilterColumns ==
    /\ Fresh
    /\ \E filters \in FilterLists :
        /\ fn' = "filter_columns"
        /\ args' = [filters |-> filters]
        /\ pre' = df
        /\ ret' = filter_columns(df, filters)
        /\ raised' = "none"
        /\ UNCHANGED <<df, log, chain>>

CallCleaningDataset ==
    /\ Fresh
    /\ fn' = "cleaning_dataset"
    /\ args' = NoValue
    /\ pre' = df
    /\ ret' = cleaning_dataset(df)
    /\ chain' = <<df, ret'>>
    /\ raised' = "none"
    /\ UNCHANGED <<df, log>>

\* cleaning_dataset(cleaning_dataset(...)): called on what it returned
CallCleaningAgain ==
    /\ fn = "cleaning_dataset"
    /\ Len(chain) <= MaxApply
    /\ pre' = ret
    /\ ret' = cleaning_dataset(ret)
    /\ chain' = Append(chain, ret')
    /\ UNCHANGED <<df, fn, args, raised, log>>

IdColumns == {NOME, M20}

CallCalcularDesistentes(AtualTables) ==
    /\ Fresh
    /\ \E df_atual \in AtualTables, coluna_nome \in IdColumns :
        /\ fn' = "calcular_desistentes"
        /\ args' = [df_atual |-> df_atual, coluna_nome |-> coluna_nome]
        /\ pre' = df
        /\ IF desistentes_raises(df, df_atual, coluna_nome)
           THEN /\ raised' = "KeyError"
                /\ ret' = NoValue
           ELSE /\ raised' = "none"
                /\ ret' \in calcular_desistentes(df, df_atual, coluna_nome)
        /\ UNCHANGED <<df, log, chain>>

ColunaLists == SeqsUpTo({M20, M21, Unhashable}, MaxColunas)

CasasValues == {Casas(0), Casas(1), Casas(2), BadCasas}

Converter(colunas, casas_decimais) ==
    \E r \in {converter_e_arredondar(df, colunas, casas_decimais)} :
        /\ fn' = "converter_e_arredondar"
        /\ args' = [colunas |-> colunas, casas_decimais |-> casas_decimais]
        /\ pre' = df
        /\ df' = r.df
        /\ ret' = IF r.raised = "none" THEN r.df ELSE NoValue
        /\ log' = r.log
        /\ raised' = r.raised
        /\ UNCHANGED chain

CallConverter ==
    /\ Fresh
    /\ \E colunas \in ColunaLists, casas_decimais \in CasasValues :
        Converter(colunas, casas_decimais)

\* casas_decimais left out
CallConverterDefault ==
    /\ Fresh
    /\ \E colunas \in ColunaLists : Converter(colunas, Casas(DefaultCasas))

----------------------------------------------------------------------------
(* The tables the calls are made on *)

ColCells == {NaN, Str(<<"a">>)}

ColumnLists(maxCols) == {c \in SeqsUpTo(ColNames, maxCols) : IsInjective(c)}

ColTables(maxCols) == TablesOver(ColumnLists(maxCols), ColCells, {0, 1})

CleanColumnLists(maxCols) ==
    {c \in SeqsUpTo({NOME, M20, M21}, maxCols) : IsInjective(c)}

CleanTables(maxCols, maxRows) ==
    TablesOver(CleanColumnLists(maxCols), ColCells, 0..maxRows)

IdCells == {Str(<<"A">>), Str(<<"B">>), Str(<<"C">>)}

DesistTables(maxRows) ==
    TablesOver({<<NOME>>, <<M20>>}, IdCells, 0..maxRows)
        \cup TablesOver({<<M20, NOME>>}, IdCells, {1})

\* the last cell is the number 2.5
ConvCells == {NaN, Str(<<"3", ".", "5">>), Str(<<"a", "b", "c">>),
              Str(<<".", "1", "2", "5">>), Str(<<"-", "1", ".", "5">>),
              Num(25 * Pow10(Scale - 1))}

PairCells == {NaN, Str(<<"3", ".", "5">>), Str(<<"a", "b", "c">>)}

ConvTables(maxRows) ==
    TablesOver({<<>>, <<M20>>}, ConvCells, 0..maxRows)
        \cup TablesOver({<<M20, M21>>, <<M21, M20>>}, PairCells, 0..maxRows)

AllCells == {NaN, Str(<<"A">>), Str(<<"2", ".", "5">>)}

AllTables ==
    TablesOver({<<>>, <<NOME>>, <<M20>>, <<NOME, M20>>, <<M21, NOME, M20>>},
               AllCells, {0, 1})

InitCalls ==
    /\ pre = df
    /\ fn = "none"
    /\ args = NoValue
    /\ ret = NoValue
    /\ raised = "none"
    /\ log = <<>>
    /\ chain = <<>>

InitCols == df \in ColTables(MaxCols) /\ InitCalls

NextCols == CallFilterColumnsMultiple \/ CallFilterColumns

SpecCols == InitCols /\ [][NextCols]_vars

InitClean == df \in CleanTables(MaxCols, MaxRows) /\ InitCalls

NextClean == CallCleaningDataset \/ CallCleaningAgain

SpecClean == InitClean /\ [][NextClean]_vars

InitDesist == df \in DesistTables(MaxIdRows) /\ InitCalls

NextDesist == CallCalcularDesistentes(DesistTables(MaxIdRows))

SpecDesist == InitDesist /\ [][NextDesist]_vars

InitConv == df \in ConvTables(MaxRows) /\ InitCalls

NextConv == CallConverter \/ CallConverterDefault

SpecConv == InitConv /\ [][NextConv]_vars

Init == df \in AllTables /\ InitCalls

Next ==
    \/ CallFilterColumnsMultiple
    \/ CallFilterColumns
    \/ CallCleaningDataset
    \/ CallCleaningAgain
    \/ CallCalcularDesistentes(AllTables)
    \/ CallConverter
    \/ CallConverterDefault

Spec == Init /\ [][Next]_vars

----------------------------------------------------------------------------
(* Properties *)

ColumnSet(t) == Range(t.columns)

\* g lists exactly the labels of S, each once, in the order they have in cols
IsSubsequenceOf(g, cols, S) ==
    /\ Range(g) = S
    /\ IsInjective(g)
    /\ \A a, b \in 1..Len(g) : a < b => Pos(cols, g[a]) < Pos(cols, g[b])

\* r holds, under each of its labels, the column t holds under that label
SameCells(r, t) ==
    /\ r.index = t.index
    /\ Len(r.rows) = Len(t.rows)
    /\ \A i \in 1..Len(r.rows) :
        /\ Len(r.rows[i]) = Len(r.columns)
        /\ \A j \in 1..Len(r.columns) :
            r.rows[i][j] = t.rows[i][Pos(t.columns, r.columns[j])]

MatchesAny(column, filters) ==
    \E k \in 1..Len(filters) : Contains(filters[k], column)

Unmatched(t, filters) == {c \in ColumnSet(t) : ~MatchesAny(c, filters)}

\* C1: the groups filter_columns_multiple returns are pairwise disjoint, no
\* group holds a column twice, and the groups together with the columns that
\* contain no filter are exactly the table's columns.
C1_Partition ==
    fn = "filter_columns_multiple" =>
        LET grouped == UNION {ColumnSet(ret[f]) : f \in DOMAIN ret}
        IN  /\ \A f, g \in DOMAIN ret :
                f # g => ColumnSet(ret[f]) \cap ColumnSet(ret[g]) = {}
            /\ \A f \in DOMAIN ret : IsInjective(ret[f].columns)
            /\ grouped \cap Unmatched(pre, args.filters) = {}
            /\ grouped \cup Unmatched(pre, args.filters) = ColumnSet(pre)

C1_Witness ==
    /\ fn = "filter_columns_multiple"
    /\ Unmatched(pre, args.filters) # {}
    /\ Cardinality({f \in DOMAIN ret : ret[f].columns # <<>>}) = 2
    /\ \E c \in ColumnSet(pre) :
          \A k \in 1..Len(args.filters) : Contains(args.filters[k], c)

\* the place of a filter's first occurrence in the list
FirstIndex(filters, f) ==
    CHOOSE k \in 1..Len(filters) :
        filters[k] = f /\ \A m \in 1..(k - 1) : filters[m] # f

\* the columns of filter f: its name contains f and no filter before f
GroupOf(t, filters, f) ==
    {c \in ColumnSet(t) :
        /\ Contains(f, c)
        /\ \A m \in 1..(FirstIndex(filters, f) - 1) : ~Contains(filters[m], c)}

\* C2: filter_columns_multiple returns one entry per filter, the entry of f
\* being the columns, in the table's order and with the table's cells, whose
\* name contains f and no filter that precedes f; it raises nothing.
C2_Groups ==
    fn = "filter_columns_multiple" =>
        /\ raised = "none"
        /\ DOMAIN ret = Range(args.filters)
        /\ \A f \in Range(args.filters) :
            /\ IsSubsequenceOf(ret[f].columns, pre.columns,
                               GroupOf(pre, args.filters, f))
            /\ SameCells(ret[f], pre)

C2_Witness ==
    /\ fn = "filter_columns_multiple"
    /\ Len(args.filters) = 2
    /\ args.filters[1] # args.filters[2]
    /\ ret[args.filters[2]].columns = <<>>
    /\ Len(ret[args.filters[1]].columns) = 2
    /\ \E c \in ColumnSet(pre) :
          Contains(args.filters[1], c) /\ Contains(args.filters[2], c)
    /\ Unmatched(pre, args.filters) # {}
    /\ Len(pre.rows) = 1

\* C3: filter_columns returns the columns whose name contains none of the
\* substrings, in the table's order and with the table's cells, and leaves
\* the table it was given as it was.
C3_Excluder ==
    fn = "filter_columns" =>
        /\ raised = "none"
        /\ IsSubsequenceOf(ret.columns, pre.columns, Unmatched(pre, args.filters))
        /\ SameCells(ret, pre)
        /\ df = pre

C3_Witness ==
    /\ fn = "filter_columns"
    /\ Len(ret.columns) = 2
    /\ Len(pre.columns) = 3
    /\ Len(args.filters) = 2
    /\ Len(pre.rows) = 1
    /\ df = pre

----------------------------------------------------------------------------
(* cleaning_dataset *)

OtherColumns(t) == {j \in 1..Len(t.columns) : t.columns[j] # NOME}

\* row i of t holds no value outside NOME
NoOtherValue(t, i) == \A j \in OtherColumns(t) : isna(t.rows[i][j])

\* row i of t holds no value at all
NoValueAtAll(t, i) == \A j \in 1..Len(t.columns) : isna(t.rows[i][j])

Dropped(t, i) == NoOtherValue(t, i) \/ NoValueAtAll(t, i)

\* the position of a row label in t.index (labels are unique)
RowOf(t, label) == CHOOSE i \in 1..Len(t.index) : t.index[i] = label

\* r holds exactly the rows of t whose position is in keep, in t's order
IsRowsOf(r, t, keep) ==
    /\ r.columns = t.columns
    /\ Len(r.rows) = Len(r.index)
    /\ Range(r.index) = {t.index[i] : i \in keep}
    /\ \A a, b \in 1..Len(r.index) :
          a < b => RowOf(t, r.index[a]) < RowOf(t, r.index[b])
    /\ \A a \in 1..Len(r.index) : r.rows[a] = t.rows[RowOf(t, r.index[a])]

\* C4: cleaning_dataset applied to what cleaning_dataset returned returns the
\* same table: same rows, same order.
C4_Idempotent ==
    \A n \in 3..Len(chain) : chain[n] = chain[2]

C4_Witness ==
    /\ Len(chain) = 3
    /\ chain[3] = ret
    /\ Len(chain[1].rows) > Len(chain[2].rows)
    /\ Len(chain[2].rows) > 0

\* C5: cleaning_dataset returns a new table holding exactly the rows that
\* neither stage drops (a row is dropped when every column but NOME is
\* missing, or when every column is missing), in their original order; a row
\* with a value outside NOME is kept; the table given is left as it was.
C5_Cleaner ==
    fn = "cleaning_dataset" =>
        /\ raised = "none"
        /\ IsRowsOf(ret, pre, {i \in 1..Len(pre.rows) : ~Dropped(pre, i)})
        /\ \A i \in 1..Len(pre.rows) :
              ~NoOtherValue(pre, i) => pre.index[i] \in Range(ret.index)
        /\ df = chain[1]

C5_Witness ==
    /\ fn = "cleaning_dataset"
    /\ Len(chain) = 2
    /\ NOME \in ColumnSet(pre)
    /\ Len(pre.rows) = 2
    /\ Dropped(pre, 1)
    /\ ~NoValueAtAll(pre, 1)
    /\ ~Dropped(pre, 2)
    /\ ret.index = <<2>>

\* C10: on a table with a column other than NOME, the second stage removes
\* no row the first stage kept: the result is the first stage's result, and a
\* row whose only value is NOME is removed.
C10_SecondStageNoOp ==
    (fn = "cleaning_dataset" /\ OtherColumns(pre) # {}) =>
        /\ IsRowsOf(ret, pre, {i \in 1..Len(pre.rows) : ~NoOtherValue(pre, i)})
        /\ \A i \in 1..Len(pre.rows) :
              (NoOtherValue(pre, i) /\ ~NoValueAtAll(pre, i))
                  => pre.index[i] \notin Range(ret.index)

C10_Witness ==
    /\ fn = "cleaning_dataset"
    /\ Len(chain) = 2
    /\ Len(pre.columns) = 3
    /\ \E i \in 1..Len(pre.rows) :
          NoOtherValue(pre, i) /\ ~NoValueAtAll(pre, i)
    /\ \E i \in 1..Len(pre.rows) :
          ~NoOtherValue(pre, i) /\ \E j \in 1..Len(pre.columns) : isna(pre.rows[i][j])
    /\ Len(ret.rows) = 1

----------------------------------------------------------------------------
(* calcular_desistentes *)

\* the values table t holds in the column labelled c
ValuesIn(t, c) ==
    {t.rows[i][j] : i \in 1..Len(t.rows),
                    j \in {k \in 1..Len(t.columns) : t.columns[k] = c}}

HasColumn(t, c) == \E j \in 1..Len(t.columns) : t.columns[j] = c

\* C6: calcular_desistentes returns, each once, exactly the identifiers that
\* occur in the prior table's column and not in the current table's; when
\* every prior identifier occurs in the current table the result is empty.
C6_SetDifference ==
    (fn = "calcular_desistentes" /\ raised = "none") =>
        LET prior   == ValuesIn(pre, args.coluna_nome)
            current == ValuesIn(args.df_atual, args.coluna_nome)
        IN  /\ IsInjective(ret)
            /\ \A v \in IdCells : v \in Range(ret) <=> (v \in prior /\ v \notin current)
            /\ Range(ret) \subseteq IdCells
            /\ prior \subseteq current => ret = <<>>

C6_Witness ==
    /\ fn = "calcular_desistentes"
    /\ raised = "none"
    /\ Len(pre.rows) = 3
    /\ Cardinality(ValuesIn(pre, args.coluna_nome)) = 2
    /\ Cardinality(ValuesIn(args.df_atual, args.coluna_nome)) = 2
    /\ Len(ret) = 1

----------------------------------------------------------------------------
(* converter_e_arredondar *)

Failed == fn = "converter_e_arredondar" /\ log # <<"Colunas foram convertidas">>

\* C7: when converter_e_arredondar fails, it reports the failure and returns
\* the table as it was given, the columns before the failing one included,
\* and no exception reaches the caller.
C7_FailureLeavesTableUnmodified ==
    Failed =>
        /\ raised = "none"
        /\ log = <<"Erro ao converter ou arredondar colunas">>
        /\ ret = pre

\* r is v rounded to `decimals` places: a multiple of the unit nearest to v,
\* the even one of two equally near
IsRounded(r, v, decimals) ==
    IF decimals >= Scale THEN r = v
    ELSE LET unit == Pow10(Scale - decimals)
             d == IF r >= v THEN r - v ELSE v - r
         IN  /\ r % unit = 0
             /\ 2 * d <= unit
             /\ 2 * d = unit => (r \div unit) % 2 = 0

\* cell c is what the normalizer makes of cell o
IsConverted(c, o, decimals) ==
    LET n == to_numeric(o)
    IN  IF n.k = "num"
        THEN c.k = "num" /\ IsRounded(c.v, n.v, decimals)
        ELSE isna(c)

WellTyped ==
    /\ Unhashable \notin Range(args.colunas)
    /\ args.casas_decimais.int

\* C8: called with column labels and an integer precision,
\* converter_e_arredondar returns the table with every named column that the
\* table has holding, position by position, the number the original value
\* spells rounded to the precision, or NaN when it spells none; a named column
\* the table lacks is skipped without error; the other columns keep their
\* values.
C8_Normalizer ==
    (fn = "converter_e_arredondar" /\ WellTyped) =>
        /\ raised = "none"
        /\ ~Failed
        /\ ret = df
        /\ ret.columns = pre.columns
        /\ ret.index = pre.index
        /\ Len(ret.rows) = Len(pre.rows)
        /\ \A i \in 1..Len(pre.rows), j \in 1..Len(pre.columns) :
              IF pre.columns[j] \in Range(args.colunas)
              THEN IsConverted(ret.rows[i][j], pre.rows[i][j], args.casas_decimais.v)
              ELSE ret.rows[i][j] = pre.rows[i][j]

\* ["3.5", "abc"] at precision 0 becomes [4, NaN]; M21, named and not a
\* column of the table, is skipped
C8_Witness ==
    /\ fn = "converter_e_arredondar"
    /\ args.casas_decimais = Casas(0)
    /\ pre.columns = <<M20>>
    /\ args.colunas = <<M21, M20>>
    /\ pre.rows = << <<Str(<<"3", ".", "5">>)>>, <<Str(<<"a", "b", "c">>)>> >>
    /\ ret.rows = << <<Num(4 * Pow10(Scale))>>, <<NaN>> >>

----------------------------------------------------------------------------
(* Errors *)

\* C9: no core function raises: every call returns.
C9_NoCoreFunctionRaises == raised = "none"

\* C9, amended: the only exception that reaches a caller is the KeyError of
\* calcular_desistentes, raised exactly when coluna_nome is not a column of
\* the prior table or not a column of the current table; every other call
\* returns, and converter_e_arredondar reports its failures on the log.
C9_OnlyKeyError ==
    /\ raised \in {"none", "KeyError"}
    /\ (raised = "KeyError") <=>
          (/\ fn = "calcular_desistentes"
           /\ ~(HasColumn(pre, args.coluna_nome)
                  /\ HasColumn(args.df_atual, args.coluna_nome)))
    /\ (raised = "KeyError") => (ret = NoValue /\ df = pre)
    /\ Failed => log = <<"Erro ao converter ou arredondar colunas">>

C9_Witness ==
    /\ fn = "calcular_desistentes"
    /\ raised = "KeyError"
    /\ HasColumn(pre, args.coluna_nome)
    /\ ~HasColumn(args.df_atual, args.coluna_nome)

====
